---- MODULE Spec2Model ----
(***************************************************************************)
(* A model of the VideoCore VI QPU assembler (videocore6/assembler.py):    *)
(* the encoding tables, the operand resolver (ALU.manage_src), the ALU and *)
(* branch builders, the program sequence with its label table and finalize *)
(* pass, and the bit packer (Instruction.__int__).                         *)
(*                                                                         *)
(* Machine words and the 32-bit displacement are kept as the set of the    *)
(* positions of their 1 bits: x << k moves every position up by k, x | y   *)
(* is the union, so a field that outgrows its width runs into the next one *)
(* exactly as Python's unbounded integers do.                              *)
(***************************************************************************)
EXTENDS Integers, Sequences, FiniteSets, TLC

VARIABLES asm, labels, hist, last

vars == <<asm, labels, hist, last>>

(***************************************************************************)
(* Bound of the model, and the stand-ins for Python's None.                 *)
(***************************************************************************)
\* Longest program sequence built.
MaxInsns == 4

\* Python's None, where the source holds None in an integer attribute.
None == -1

\* Python's None, where the source holds None in a string attribute.
NoneStr == "None"

(***************************************************************************)
(* Encoding tables (class Instruction).                                    *)
(***************************************************************************)
waddrs ==
  [
    null |-> <<1, 6>>, tlb |-> <<1, 7>>, tlbu |-> <<1, 8>>, tmu |-> <<1, 9>>,
    tmul |-> <<1, 10>>, tmud |-> <<1, 11>>, tmua |-> <<1, 12>>, tmuau |-> <<1, 13>>,
    vpm |-> <<1, 14>>, vpmu |-> <<1, 15>>, sync |-> <<1, 16>>, syncu |-> <<1, 17>>,
    syncb |-> <<1, 18>>, recip |-> <<1, 19>>, rsqrt |-> <<1, 20>>, exp |-> <<1, 21>>,
    log |-> <<1, 22>>, sin |-> <<1, 23>>, rsqrt2 |-> <<1, 24>>, tmuc |-> <<1, 32>>,
    tmus |-> <<1, 33>>, tmut |-> <<1, 34>>, tmur |-> <<1, 35>>, tmui |-> <<1, 36>>,
    tmub |-> <<1, 37>>, tmudref |-> <<1, 38>>, tmuoff |-> <<1, 39>>, tmuscm |-> <<1, 40>>,
    tmusf |-> <<1, 41>>, tmuslod |-> <<1, 42>>, tmuhs |-> <<1, 43>>, tmuhscm |-> <<1, 44>>,
    tmuhsf |-> <<1, 45>>, tmuhslod |-> <<1, 46>>, r5rep |-> <<1, 55>>, r0 |-> <<1, 0>>,
    r1 |-> <<1, 1>>, r2 |-> <<1, 2>>, r3 |-> <<1, 3>>, r4 |-> <<1, 4>>,
    r5 |-> <<1, 5>>, rf0 |-> <<0, 0>>, rf1 |-> <<0, 1>>, rf2 |-> <<0, 2>>,
    rf3 |-> <<0, 3>>, rf4 |-> <<0, 4>>, rf5 |-> <<0, 5>>, rf6 |-> <<0, 6>>,
    rf7 |-> <<0, 7>>, rf8 |-> <<0, 8>>, rf9 |-> <<0, 9>>, rf10 |-> <<0, 10>>,
    rf11 |-> <<0, 11>>, rf12 |-> <<0, 12>>, rf13 |-> <<0, 13>>, rf14 |-> <<0, 14>>,
    rf15 |-> <<0, 15>>, rf16 |-> <<0, 16>>, rf17 |-> <<0, 17>>, rf18 |-> <<0, 18>>,
    rf19 |-> <<0, 19>>, rf20 |-> <<0, 20>>, rf21 |-> <<0, 21>>, rf22 |-> <<0, 22>>,
    rf23 |-> <<0, 23>>, rf24 |-> <<0, 24>>, rf25 |-> <<0, 25>>, rf26 |-> <<0, 26>>,
    rf27 |-> <<0, 27>>, rf28 |-> <<0, 28>>, rf29 |-> <<0, 29>>, rf30 |-> <<0, 30>>,
    rf31 |-> <<0, 31>>, rf32 |-> <<0, 32>>, rf33 |-> <<0, 33>>, rf34 |-> <<0, 34>>,
    rf35 |-> <<0, 35>>, rf36 |-> <<0, 36>>, rf37 |-> <<0, 37>>, rf38 |-> <<0, 38>>,
    rf39 |-> <<0, 39>>, rf40 |-> <<0, 40>>, rf41 |-> <<0, 41>>, rf42 |-> <<0, 42>>,
    rf43 |-> <<0, 43>>, rf44 |-> <<0, 44>>, rf45 |-> <<0, 45>>, rf46 |-> <<0, 46>>,
    rf47 |-> <<0, 47>>, rf48 |-> <<0, 48>>, rf49 |-> <<0, 49>>, rf50 |-> <<0, 50>>,
    rf51 |-> <<0, 51>>, rf52 |-> <<0, 52>>, rf53 |-> <<0, 53>>, rf54 |-> <<0, 54>>,
    rf55 |-> <<0, 55>>, rf56 |-> <<0, 56>>, rf57 |-> <<0, 57>>, rf58 |-> <<0, 58>>,
    rf59 |-> <<0, 59>>, rf60 |-> <<0, 60>>, rf61 |-> <<0, 61>>, rf62 |-> <<0, 62>>,
    rf63 |-> <<0, 63>>
  ]

add_ops ==
  [
    add |-> 56, sub |-> 60, min |-> 120, max |-> 121, umin |-> 122, umax |-> 123,
    shl |-> 124, shr |-> 125, asr |-> 126, ror |-> 127, band |-> 181, bor |-> 182,
    bxor |-> 183, bnot |-> 186, neg |-> 186, flapush |-> 186, flbpush |-> 186, flpop |-> 186,
    op_recip |-> 186, setmsf |-> 186, setrevf |-> 186, nop |-> 187, tidx |-> 187, eidx |-> 187,
    lr |-> 187, vfla |-> 187, vflna |-> 187, vflb |-> 187, vflnb |-> 187, msf |-> 187,
    revf |-> 187, iid |-> 187, sampid |-> 187, barrierid |-> 187, tmuwt |-> 187, vpmwt |-> 187,
    op_rsqrt |-> 188, op_exp |-> 188, op_log |-> 188, op_sin |-> 188, op_rsqrt2 |-> 188, stvpmv |-> 248,
    stvpmd |-> 248, stvpmp |-> 248, clz |-> 252, fadd0 |-> 0, faddnf0 |-> 0, fadd1 |-> 1,
    faddnf1 |-> 1, fadd2 |-> 2, faddnf2 |-> 2, fadd3 |-> 3, faddnf3 |-> 3, fadd4 |-> 4,
    faddnf4 |-> 4, fadd5 |-> 5, faddnf5 |-> 5, fadd6 |-> 6, faddnf6 |-> 6, fadd7 |-> 7,
    faddnf7 |-> 7, fadd8 |-> 8, faddnf8 |-> 8, fadd9 |-> 9, faddnf9 |-> 9, fadd10 |-> 10,
    faddnf10 |-> 10, fadd11 |-> 11, faddnf11 |-> 11, fadd12 |-> 12, faddnf12 |-> 12, fadd13 |-> 13,
    faddnf13 |-> 13, fadd14 |-> 14, faddnf14 |-> 14, fadd15 |-> 15, faddnf15 |-> 15, fadd16 |-> 16,
    faddnf16 |-> 16, fadd17 |-> 17, faddnf17 |-> 17, fadd18 |-> 18, faddnf18 |-> 18, fadd19 |-> 19,
    faddnf19 |-> 19, fadd20 |-> 20, faddnf20 |-> 20, fadd21 |-> 21, faddnf21 |-> 21, fadd22 |-> 22,
    faddnf22 |-> 22, fadd23 |-> 23, faddnf23 |-> 23, fadd24 |-> 24, faddnf24 |-> 24, fadd25 |-> 25,
    faddnf25 |-> 25, fadd26 |-> 26, faddnf26 |-> 26, fadd27 |-> 27, faddnf27 |-> 27, fadd28 |-> 28,
    faddnf28 |-> 28, fadd29 |-> 29, faddnf29 |-> 29, fadd30 |-> 30, faddnf30 |-> 30, fadd31 |-> 31,
    faddnf31 |-> 31, fadd32 |-> 32, faddnf32 |-> 32, fadd33 |-> 33, faddnf33 |-> 33, fadd34 |-> 34,
    faddnf34 |-> 34, fadd35 |-> 35, faddnf35 |-> 35, fadd36 |-> 36, faddnf36 |-> 36, fadd37 |-> 37,
    faddnf37 |-> 37, fadd38 |-> 38, faddnf38 |-> 38, fadd39 |-> 39, faddnf39 |-> 39, fadd40 |-> 40,
    faddnf40 |-> 40, fadd41 |-> 41, faddnf41 |-> 41, fadd42 |-> 42, faddnf42 |-> 42, fadd43 |-> 43,
    faddnf43 |-> 43, fadd44 |-> 44, faddnf44 |-> 44, fadd45 |-> 45, faddnf45 |-> 45, fadd46 |-> 46,
    faddnf46 |-> 46, fadd47 |-> 47, faddnf47 |-> 47, fsub64 |-> 64, fsub65 |-> 65, fsub66 |-> 66,
    fsub67 |-> 67, fsub68 |-> 68, fsub69 |-> 69, fsub70 |-> 70, fsub71 |-> 71, fsub72 |-> 72,
    fsub73 |-> 73, fsub74 |-> 74, fsub75 |-> 75, fsub76 |-> 76, fsub77 |-> 77, fsub78 |-> 78,
    fsub79 |-> 79, fsub80 |-> 80, fsub81 |-> 81, fsub82 |-> 82, fsub83 |-> 83, fsub84 |-> 84,
    fsub85 |-> 85, fsub86 |-> 86, fsub87 |-> 87, fsub88 |-> 88, fsub89 |-> 89, fsub90 |-> 90,
    fsub91 |-> 91, fsub92 |-> 92, fsub93 |-> 93, fsub94 |-> 94, fsub95 |-> 95, fsub96 |-> 96,
    fsub97 |-> 97, fsub98 |-> 98, fsub99 |-> 99, fsub100 |-> 100, fsub101 |-> 101, fsub102 |-> 102,
    fsub103 |-> 103, fsub104 |-> 104, fsub105 |-> 105, fsub106 |-> 106, fsub107 |-> 107, fsub108 |-> 108,
    fsub109 |-> 109, fsub110 |-> 110, fsub111 |-> 111, fmin128 |-> 128, fmax128 |-> 128, fmin129 |-> 129,
    fmax129 |-> 129, fmin130 |-> 130, fmax130 |-> 130, fmin131 |-> 131, fmax131 |-> 131, fmin132 |-> 132,
    fmax132 |-> 132, fmin133 |-> 133, fmax133 |-> 133, fmin134 |-> 134, fmax134 |-> 134, fmin135 |-> 135,
    fmax135 |-> 135, fmin136 |-> 136, fmax136 |-> 136, fmin137 |-> 137, fmax137 |-> 137, fmin138 |-> 138,
    fmax138 |-> 138, fmin139 |-> 139, fmax139 |-> 139, fmin140 |-> 140, fmax140 |-> 140, fmin141 |-> 141,
    fmax141 |-> 141, fmin142 |-> 142, fmax142 |-> 142, fmin143 |-> 143, fmax143 |-> 143, fmin144 |-> 144,
    fmax144 |-> 144, fmin145 |-> 145, fmax145 |-> 145, fmin146 |-> 146, fmax146 |-> 146, fmin147 |-> 147,
    fmax147 |-> 147, fmin148 |-> 148, fmax148 |-> 148, fmin149 |-> 149, fmax149 |-> 149, fmin150 |-> 150,
    fmax150 |-> 150, fmin151 |-> 151, fmax151 |-> 151, fmin152 |-> 152, fmax152 |-> 152, fmin153 |-> 153,
    fmax153 |-> 153, fmin154 |-> 154, fmax154 |-> 154, fmin155 |-> 155, fmax155 |-> 155, fmin156 |-> 156,
    fmax156 |-> 156, fmin157 |-> 157, fmax157 |-> 157, fmin158 |-> 158, fmax158 |-> 158, fmin159 |-> 159,
    fmax159 |-> 159, fmin160 |-> 160, fmax160 |-> 160, fmin161 |-> 161, fmax161 |-> 161, fmin162 |-> 162,
    fmax162 |-> 162, fmin163 |-> 163, fmax163 |-> 163, fmin164 |-> 164, fmax164 |-> 164, fmin165 |-> 165,
    fmax165 |-> 165, fmin166 |-> 166, fmax166 |-> 166, fmin167 |-> 167, fmax167 |-> 167, fmin168 |-> 168,
    fmax168 |-> 168, fmin169 |-> 169, fmax169 |-> 169, fmin170 |-> 170, fmax170 |-> 170, fmin171 |-> 171,
    fmax171 |-> 171, fmin172 |-> 172, fmax172 |-> 172, fmin173 |-> 173, fmax173 |-> 173, fmin174 |-> 174,
    fmax174 |-> 174, fmin175 |-> 175, fmax175 |-> 175
  ]

add_op_mux_a ==
  [
    nop |-> 0, tidx |-> 1, eidx |-> 2, lr |-> 3, vfla |-> 4, vflna |-> 5,
    vflb |-> 6, vflnb |-> 7, msf |-> 0, revf |-> 1, iid |-> 2, sampid |-> 3,
    barrierid |-> 4, tmuwt |-> 5, vpmwt |-> 6
  ]

add_op_mux_b ==
  [
    bnot |-> 0, neg |-> 1, flapush |-> 2, flbpush |-> 3, flpop |-> 4, op_recip |-> 5,
    setmsf |-> 6, setrevf |-> 7, nop |-> 0, tidx |-> 0, eidx |-> 0, lr |-> 0,
    vfla |-> 0, vflna |-> 0, vflb |-> 0, vflnb |-> 0, msf |-> 2, revf |-> 2,
    iid |-> 2, sampid |-> 2, barrierid |-> 2, tmuwt |-> 2, vpmwt |-> 2, op_rsqrt |-> 3,
    op_exp |-> 4, op_log |-> 5, op_sin |-> 6, op_rsqrt2 |-> 7, clz |-> 3
  ]

mul_ops ==
  [
    add |-> 1, sub |-> 2, umul24 |-> 3, smul24 |-> 9, multop |-> 10, fmov |-> 14,
    fmov_0 |-> 15, fmov_1 |-> 15, fmov_2 |-> 15, fmov_3 |-> 15, nop |-> 15, mov |-> 15,
    fmul16 |-> 16, fmul17 |-> 17, fmul18 |-> 18, fmul19 |-> 19, fmul20 |-> 20, fmul21 |-> 21,
    fmul22 |-> 22, fmul23 |-> 23, fmul24 |-> 24, fmul25 |-> 25, fmul26 |-> 26, fmul27 |-> 27,
    fmul28 |-> 28, fmul29 |-> 29, fmul30 |-> 30, fmul31 |-> 31, fmul32 |-> 32, fmul33 |-> 33,
    fmul34 |-> 34, fmul35 |-> 35, fmul36 |-> 36, fmul37 |-> 37, fmul38 |-> 38, fmul39 |-> 39,
    fmul40 |-> 40, fmul41 |-> 41, fmul42 |-> 42, fmul43 |-> 43, fmul44 |-> 44, fmul45 |-> 45,
    fmul46 |-> 46, fmul47 |-> 47, fmul48 |-> 48, fmul49 |-> 49, fmul50 |-> 50, fmul51 |-> 51,
    fmul52 |-> 52, fmul53 |-> 53, fmul54 |-> 54, fmul55 |-> 55, fmul56 |-> 56, fmul57 |-> 57,
    fmul58 |-> 58, fmul59 |-> 59, fmul60 |-> 60, fmul61 |-> 61, fmul62 |-> 62, fmul63 |-> 63
  ]

mul_op_mux_a ==
  [
    nop |-> 0
  ]

mul_op_mux_b ==
  [
    fmov_0 |-> 0, fmov_1 |-> 1, fmov_2 |-> 2, fmov_3 |-> 3, nop |-> 4, mov |-> 7
  ]

(***************************************************************************)
(* Integers as bit patterns.                                                *)
(***************************************************************************)
\* 2^0 .. 2^30.
Pow2Table ==
  <<
    1, 2, 4, 8, 16, 32, 64, 128,
    256, 512, 1024, 2048, 4096, 8192, 16384, 32768,
    65536, 131072, 262144, 524288, 1048576, 2097152, 4194304, 8388608,
    16777216, 33554432, 67108864, 134217728, 268435456, 536870912, 1073741824
  >>

\* 2^n, for n in 0..30.
Pow2(n) == Pow2Table[n + 1]

\* The 1 bits of a natural number below 2^31.
BitsOf(v) == {b \in 0..30 : (v \div Pow2(b)) % 2 = 1}

\* x << k
Shl(bits, k) == {b + k : b \in bits}

\* x >> k
Shr(bits, k) == {b - k : b \in {x \in bits : x >= k}}

\* x & ((1 << n) - 1)
LowBits(bits, n) == {b \in bits : b < n}

RECURSIVE SumBits(_)
SumBits(bits) ==
  IF bits = {} THEN 0
  ELSE LET b == CHOOSE x \in bits : TRUE
       IN  Pow2(b) + SumBits(bits \ {b})

\* The number held by the bits off .. off+width-1 of a word.
Field(word, off, width) ==
  SumBits({b - off : b \in {x \in word : x >= off /\ x < off + width}})

\* videocore6.int_to_uint: struct 'i' -> 'I', the 32-bit two's-complement
\* pattern of a signed integer.
int_to_uint(i) ==
  {b \in 0..31 : IF b < 31 THEN (i \div Pow2(b)) % 2 = 1 ELSE i < 0}

\* A float is <<m, e>>, the number m * 2^e with m odd (or <<0, 0>>), so that
\* two floats are equal exactly when their pairs are.
RECURSIVE NormFloat(_, _)
NormFloat(m, e) ==
  IF m = 0 THEN <<0, 0>>
  ELSE IF m % 2 = 0 THEN NormFloat(m \div 2, e + 1)
  ELSE <<m, e>>

\* videocore6.float_to_int on a power of two in the normal range: the IEEE-754
\* single-precision pattern, biased exponent at bit 23, no mantissa bits.
float_to_int(f) == (f[2] + 127) * Pow2(23)

\* videocore6.int_to_float on a pattern below 2^23: a denormal, i * 2^-149.
int_to_float(i) == NormFloat(i, -149)

\* Python's int() of a float: truncation toward zero.
PyIntOfFloat(m, e) ==
  IF e >= 0 THEN m * Pow2(e)
  ELSE IF -e > 30 THEN 0
  ELSE IF m >= 0 THEN m \div Pow2(-e)
  ELSE -((-m) \div Pow2(-e))

(***************************************************************************)
(* Source operands.  k is the kind of the Python value passed as src:      *)
(*   "none"  None          "rf"   the string 'rf<n>'   "r"  the string     *)
(*   'r<n>'  "int"  the int n     "float"  the float n * 2^e               *)
(*   "fstr"  a string spelling the float n * 2^e       "name"  any other   *)
(*   register name ('null', 'tmu', ...).                                   *)
(***************************************************************************)
NoSrc == [k |-> "none", n |-> 0, e |-> 0]

Rf(i) == [k |-> "rf", n |-> i, e |-> 0]

Acc(i) == [k |-> "r", n |-> i, e |-> 0]

IntLit(v) == [k |-> "int", n |-> v, e |-> 0]

FloatLit(m, e) == [k |-> "float", n |-> NormFloat(m, e)[1], e |-> NormFloat(m, e)[2]]

FloatStr(m, e) == [k |-> "fstr", n |-> NormFloat(m, e)[1], e |-> NormFloat(m, e)[2]]

OtherName == [k |-> "name", n |-> 0, e |-> 0]

\* The sig argument: None, one name, a list/tuple of names, or another object.
NoSig == [k |-> "none", v |-> {}]

SigStr(s) == [k |-> "str", v |-> {s}]

SigList(S) == [k |-> "list", v |-> S]

SigOther(S) == [k |-> "other", v |-> S]

(***************************************************************************)
(* Small-immediate tables (class Instruction.ALU).                         *)
(***************************************************************************)
smimms_int ==
  [v \in (0..15) \cup (-16..-1) \cup {float_to_int(<<1, i - 8>>) : i \in 0..15} |->
     IF v \in 0..15 THEN v
     ELSE IF v \in -16..-1 THEN v + 32
     ELSE (CHOOSE i \in 0..15 : float_to_int(<<1, i - 8>>) = v) + 32]

smimms_float ==
  [f \in {int_to_float(i) : i \in 0..15} \cup {<<1, i - 8>> : i \in 0..15} |->
     IF f[2] \in -8..7 /\ f[1] = 1 THEN f[2] + 8 + 32
     ELSE CHOOSE i \in 0..15 : int_to_float(i) = f]

(***************************************************************************)
(* The instruction record (Instruction.__init__).                          *)
(***************************************************************************)
NewInsn ==
  [insn_type |-> "alu", finalized |-> FALSE,
   sig |-> {}, cond_add |-> NoneStr, cond_mul |-> NoneStr,
   op_add |-> add_ops.nop, ma |-> waddrs.null[1], waddr_a |-> waddrs.null[2],
   add_a |-> add_op_mux_a.nop, add_b |-> add_op_mux_b.nop,
   op_mul |-> mul_ops.nop, mm |-> waddrs.null[1], waddr_m |-> waddrs.null[2],
   mul_a |-> mul_op_mux_a.nop, mul_b |-> mul_op_mux_b.nop,
   raddr_a |-> None, raddr_b |-> None,
   addr |-> {}, addr_label |-> NoneStr,
   cond_br |-> NoneStr, bdi |-> None]

(***************************************************************************)
(* Operand resolver (ALU.manage_src): the record after the call, the       *)
(* selector returned, and the exception raised ("" when none).             *)
(***************************************************************************)
Resolved(insn, ret) == [insn |-> insn, ret |-> ret, err |-> ""]

Raised(insn, err) == [insn |-> insn, ret |-> None, err |-> err]

\* Lines 416-429: a literal goes to read port B.
manage_smimm(insn, table, key) ==
  IF key \notin DOMAIN table THEN Raised(insn, "KeyError")
  ELSE LET rb == table[key]
       IN  IF insn.raddr_b = None
           THEN Resolved([insn EXCEPT !.raddr_b = rb, !.sig = @ \cup {"smimm"}], 7)
           ELSE IF "smimm" \notin insn.sig
                THEN Raised(insn, "Too many requests for raddr_b")
           ELSE IF insn.raddr_b # rb
                THEN Raised(insn, "Small immediates conflict")
           ELSE Resolved(insn, 7)

\* Lines 431-441: a general-file register goes to read port A, else to B.
manage_rf(insn, idx) ==
  IF ~(0 <= idx /\ idx <= 63) THEN Raised(insn, "AssertionError")
  ELSE IF insn.raddr_a \in {None, idx}
       THEN Resolved([insn EXCEPT !.raddr_a = idx], 6)
  ELSE IF "smimm" \notin insn.sig /\ insn.raddr_b \in {None, idx}
       THEN Resolved([insn EXCEPT !.raddr_b = idx], 7)
  ELSE Raised(insn, "Too many register files read")

manage_src(insn, src) ==
  LET is_smimm_int == src.k \in {"int", "float"}
      smimm_int == IF src.k = "int" THEN src.n ELSE PyIntOfFloat(src.n, src.e)
      is_smimm_float == src.k = "fstr"
  IN  IF is_smimm_int THEN manage_smimm(insn, smimms_int, smimm_int)
      ELSE IF is_smimm_float THEN manage_smimm(insn, smimms_float, <<src.n, src.e>>)
      ELSE IF src.k = "rf" THEN manage_rf(insn, src.n)
      ELSE IF src.k = "r"
           THEN IF 0 <= src.n /\ src.n <= 5 THEN Resolved(insn, src.n)
                ELSE Raised(insn, "AssertionError")
      ELSE Raised(insn, "Unknown source register")

(***************************************************************************)
(* ALU builder (ALU.__init__, AddALU.__init__, MulALU.__init__).           *)
(***************************************************************************)
\* A merge that keeps only the names of the last call.
MergeSig_replace(old, sig) == IF sig.k = "none" THEN old ELSE sig.v

\* Lines 457-463: the sig argument is merged into the record's signal set.
MergeSig(old, sig) == IF sig.k = "none" THEN old ELSE old \cup sig.v

\* One manage_src call as the resolution log keeps it: the operand, the read
\* ports and the small-immediate mark before and after, and the outcome.
LogEntry(before, src, r) ==
  [src |-> src,
   a0 |-> before.raddr_a, b0 |-> before.raddr_b, sm0 |-> "smimm" \in before.sig,
   a1 |-> r.insn.raddr_a, b1 |-> r.insn.raddr_b, sm1 |-> "smimm" \in r.insn.sig,
   ret |-> r.ret, err |-> r.err]

ALUFail(insn, err, log) ==
  [ok |-> FALSE, err |-> err, insn |-> insn, log |-> log,
   cond |-> NoneStr, op |-> 0, magic |-> 0, waddr |-> 0, mux_a |-> 0, mux_b |-> 0]

\* Lines 471-479: the selector of one source, from the mnemonic's table when
\* the source is None, else from manage_src.
ALU_mux(insn, op_mux, opr, src) ==
  IF src.k = "none"
  THEN IF opr \in DOMAIN op_mux THEN Resolved(insn, op_mux[opr])
       ELSE Raised(insn, "KeyError")
  ELSE manage_src(insn, src)

ALU_log(log, before, src, r) ==
  IF src.k = "none" THEN log ELSE Append(log, LogEntry(before, src, r))

\* Lines 476-479, with the first source resolved as ra and the second as rb.
ALU_src2(ra, la, rb, ops, opr, dst, src2, cond) ==
  IF rb.err # "" THEN ALUFail(rb.insn, rb.err, ALU_log(la, ra.insn, src2, rb))
  ELSE [ok |-> TRUE, err |-> "", insn |-> rb.insn,
        log |-> ALU_log(la, ra.insn, src2, rb),
        cond |-> cond, op |-> ops[opr],
        magic |-> waddrs[dst][1], waddr |-> waddrs[dst][2],
        mux_a |-> ra.ret, mux_b |-> rb.ret]

\* Lines 471-474, with the first source resolved as ra.
ALU_src1(i0, ra, ops, op_mux_b, opr, dst, src1, src2, cond) ==
  IF ra.err # "" THEN ALUFail(ra.insn, ra.err, ALU_log(<<>>, i0, src1, ra))
  ELSE ALU_src2(ra, ALU_log(<<>>, i0, src1, ra),
                ALU_mux(ra.insn, op_mux_b, opr, src2), ops, opr, dst, src2, cond)

\* Lines 465-479, on the record i0 that holds the merged signal set.
ALU_tables(i0, ops, op_mux_a, op_mux_b, opr, dst, src1, src2, cond) ==
  IF opr \notin DOMAIN ops \/ dst \notin DOMAIN waddrs
  THEN ALUFail(i0, "KeyError", <<>>)
  ELSE ALU_src1(i0, ALU_mux(i0, op_mux_a, opr, src1),
                ops, op_mux_b, opr, dst, src1, src2, cond)

\* ALU.__init__: the record after the call, whether it returned, and what it
\* left in self (cond, op, magic, waddr, mux_a, mux_b).
ALU_init(insn, ops, op_mux_a, op_mux_b, opr, dst, src1, src2, cond, sig) ==
  IF src1.k = "none" /\ src2.k # "none"
  THEN ALUFail(insn, "src2 is specified while src1 is not", <<>>)
  ELSE IF sig.k = "other"
  THEN ALUFail([insn EXCEPT !.insn_type = "alu"],
               "Unknown object specified for sig", <<>>)
  ELSE ALU_tables([insn EXCEPT !.insn_type = "alu", !.sig = MergeSig(@, sig)],
                  ops, op_mux_a, op_mux_b, opr, dst, src1, src2, cond)

\* Lines 489-494.
AddALU_assign(r) ==
  IF ~r.ok THEN r
  ELSE [r EXCEPT !.insn = [@ EXCEPT !.cond_add = r.cond, !.op_add = r.op,
                                    !.ma = r.magic, !.waddr_a = r.waddr,
                                    !.add_a = r.mux_a, !.add_b = r.mux_b]]

\* The record after AddALU.__init__, with the outcome of the ALU builder.
AddALU(insn, opr, dst, src1, src2, cond, sig) ==
  AddALU_assign(ALU_init(insn, add_ops, add_op_mux_a, add_op_mux_b,
                         opr, dst, src1, src2, cond, sig))

\* Lines 504-509.
MulALU_assign(r) ==
  IF ~r.ok THEN r
  ELSE [r EXCEPT !.insn = [@ EXCEPT !.cond_mul = r.cond, !.op_mul = r.op,
                                    !.mm = r.magic, !.waddr_m = r.waddr,
                                    !.mul_a = r.mux_a, !.mul_b = r.mux_b]]

MulALU(insn, opr, dst, src1, src2, cond, sig) ==
  MulALU_assign(ALU_init(insn, mul_ops, mul_op_mux_a, mul_op_mux_b,
                         opr, dst, src1, src2, cond, sig))

(***************************************************************************)
(* Branch builder (Branch.__init__).  The target is the string 'rf<n>'     *)
(* (k = "rf") or a label name (k = "label").                               *)
(***************************************************************************)
ToRf(n) == [k |-> "rf", n |-> n, name |-> NoneStr]

ToLabel(name) == [k |-> "label", n |-> 0, name |-> name]

Branch(insn, src, cond) ==
  IF src.k = "rf"
  THEN [insn EXCEPT !.insn_type = "branch", !.cond_br = cond,
                    !.bdi = 3, !.raddr_a = src.n]
  ELSE [insn EXCEPT !.insn_type = "branch", !.cond_br = cond,
                    !.bdi = 1, !.addr_label = src.name]

(***************************************************************************)
(* Bit packer (sig_to_num, cond_to_num, cond_br_to_num, __int__).          *)
(***************************************************************************)
sig_to_num(insn) ==
  CASE insn.sig = {} -> 0
    [] insn.sig = {"thrsw"} -> 1
    [] insn.sig = {"ldunif"} -> 2
    [] insn.sig = {"ldtmu"} -> 4
    [] insn.sig = {"smimm"} -> 15
    [] insn.sig = {"rot"} -> 23
    [] insn.sig = {"smimm", "ldtmu"} -> 31
    [] OTHER -> None

conds_push == [c \in {"", "pushz", "pushn", "pushc"} |->
                 CASE c = "" -> 0 [] c = "pushz" -> 1 [] c = "pushn" -> 2 [] c = "pushc" -> 3]

conds_insn == [c \in {"ifa", "ifb", "ifna", "ifnb"} |->
                 CASE c = "ifa" -> 0 [] c = "ifb" -> 1 [] c = "ifna" -> 2 [] c = "ifnb" -> 3]

\* Lines 273-289: the kind of one side; a side that is None is absent.
cond_type(c) ==
  IF c # NoneStr
  THEN IF c \in DOMAIN conds_push THEN "push"
       ELSE IF c \in DOMAIN conds_insn THEN "insn"
       ELSE "unbound"
  ELSE ""

\* Lines 278-280, 287-289: a side that is None is overwritten with ''.
cond_stored(c) == IF c # NoneStr THEN c ELSE ""

\* The six rows with the sub-codes of the instruction/instruction row
\* exchanged.
cond_code_swapped(cond_add, cond_mul, cond_add_type, cond_mul_type) ==
  IF cond_add_type = "" /\ cond_mul_type = "" THEN 0
  ELSE IF cond_add_type = "push" /\ cond_mul_type = "" THEN conds_push[cond_add]
  ELSE IF cond_add_type = "" /\ cond_mul_type = "push" THEN 16 + conds_push[cond_mul]
  ELSE IF cond_add_type = "insn" /\ cond_mul_type = "insn"
       THEN 64 + conds_insn[cond_add] * 16 + conds_insn[cond_mul]
  ELSE IF cond_add_type = "insn" /\ cond_mul_type \in {"", "push"}
       THEN 32 + conds_insn[cond_add] * 4 + conds_push[cond_mul]
  ELSE IF cond_add_type \in {"", "push"} /\ cond_mul_type = "insn"
       THEN 48 + conds_insn[cond_mul] * 4 + conds_push[cond_add]
  ELSE None

\* Lines 292-309: the six rows; None when no row matches.
cond_code(cond_add, cond_mul, cond_add_type, cond_mul_type) ==
  IF cond_add_type = "" /\ cond_mul_type = "" THEN 0
  ELSE IF cond_add_type = "push" /\ cond_mul_type = "" THEN conds_push[cond_add]
  ELSE IF cond_add_type = "" /\ cond_mul_type = "push" THEN 16 + conds_push[cond_mul]
  ELSE IF cond_add_type = "insn" /\ cond_mul_type = "insn"
       THEN 64 + conds_insn[cond_mul] * 16 + conds_insn[cond_add]
  ELSE IF cond_add_type = "insn" /\ cond_mul_type \in {"", "push"}
       THEN 32 + conds_insn[cond_add] * 4 + conds_push[cond_mul]
  ELSE IF cond_add_type \in {"", "push"} /\ cond_mul_type = "insn"
       THEN 48 + conds_insn[cond_mul] * 4 + conds_push[cond_add]
  ELSE None

\* Lines 292-309 on the record whose None sides were overwritten.
cond_to_num_rows(i2, ta, tm) ==
  [insn |-> i2, num |-> cond_code(i2.cond_add, i2.cond_mul, ta, tm), err |-> ""]

\* The record after cond_to_num and the number it returns; an unknown
\* condition name leaves cond_*_type unbound, which raises.
cond_to_num(insn) ==
  IF cond_type(insn.cond_add) = "unbound"
  THEN [insn |-> insn, num |-> None, err |-> "UnboundLocalError"]
  ELSE IF cond_type(insn.cond_mul) = "unbound"
  THEN [insn |-> [insn EXCEPT !.cond_add = cond_stored(@)], num |-> None,
        err |-> "UnboundLocalError"]
  ELSE cond_to_num_rows([insn EXCEPT !.cond_add = cond_stored(@),
                                     !.cond_mul = cond_stored(@)],
                        cond_type(insn.cond_add), cond_type(insn.cond_mul))

cond_br_to_num ==
  [c \in {"always", "a0", "na0", "alla", "anyna", "anya", "allna"} |->
     CASE c = "always" -> 0 [] c = "a0" -> 2 [] c = "na0" -> 3 [] c = "alla" -> 4
       [] c = "anyna" -> 5 [] c = "anya" -> 6 [] c = "allna" -> 7]

\* raddr if raddr is not None else 0
OrZero(raddr) == IF raddr # None THEN raddr ELSE 0

Packed(insn, word) == [ok |-> TRUE, err |-> "", insn |-> insn, word |-> word]

NotPacked(insn, err) == [ok |-> FALSE, err |-> err, insn |-> insn, word |-> {}]

\* An ALU word whose signal code sits one bit lower.
alu_word_sig52(insn, sig_num, cond_num) ==
  Shl(BitsOf(insn.op_mul), 58)
    \cup Shl(BitsOf(sig_num), 52)
    \cup Shl(BitsOf(cond_num), 46)
    \cup Shl(BitsOf(insn.mm), 45)
    \cup Shl(BitsOf(insn.ma), 44)
    \cup Shl(BitsOf(insn.waddr_m), 38)
    \cup Shl(BitsOf(insn.waddr_a), 32)
    \cup Shl(BitsOf(insn.op_add), 24)
    \cup Shl(BitsOf(insn.mul_b), 21)
    \cup Shl(BitsOf(insn.mul_a), 18)
    \cup Shl(BitsOf(insn.add_b), 15)
    \cup Shl(BitsOf(insn.add_a), 12)
    \cup Shl(BitsOf(OrZero(insn.raddr_a)), 6)
    \cup Shl(BitsOf(OrZero(insn.raddr_b)), 0)

\* Lines 363-376.
alu_word(insn, sig_num, cond_num) ==
  Shl(BitsOf(insn.op_mul), 58)
    \cup Shl(BitsOf(sig_num), 53)
    \cup Shl(BitsOf(cond_num), 46)
    \cup Shl(BitsOf(insn.mm), 45)
    \cup Shl(BitsOf(insn.ma), 44)
    \cup Shl(BitsOf(insn.waddr_m), 38)
    \cup Shl(BitsOf(insn.waddr_a), 32)
    \cup Shl(BitsOf(insn.op_add), 24)
    \cup Shl(BitsOf(insn.mul_b), 21)
    \cup Shl(BitsOf(insn.mul_a), 18)
    \cup Shl(BitsOf(insn.add_b), 15)
    \cup Shl(BitsOf(insn.add_a), 12)
    \cup Shl(BitsOf(OrZero(insn.raddr_a)), 6)
    \cup Shl(BitsOf(OrZero(insn.raddr_b)), 0)

\* A branch word whose low displacement field is cut to 23 bits.
branch_word_low23(insn) ==
  Shl(BitsOf(2), 56)
    \cup Shl(Shr(LowBits(insn.addr, 23), 3), 35)
    \cup Shl(BitsOf(cond_br_to_num[insn.cond_br]), 32)
    \cup Shl(Shr(insn.addr, 24), 24)
    \cup Shl(BitsOf(insn.bdi), 12)
    \cup Shl(BitsOf(OrZero(insn.raddr_a)), 6)

\* Lines 378-383.
branch_word(insn) ==
  Shl(BitsOf(2), 56)
    \cup Shl(Shr(LowBits(insn.addr, 24), 3), 35)
    \cup Shl(BitsOf(cond_br_to_num[insn.cond_br]), 32)
    \cup Shl(Shr(insn.addr, 24), 24)
    \cup Shl(BitsOf(insn.bdi), 12)
    \cup Shl(BitsOf(OrZero(insn.raddr_a)), 6)

\* Lines 363-376 with the signal code s and the outcome c of cond_to_num.
alu_int(s, c) ==
  IF c.err # "" THEN NotPacked(c.insn, c.err)
  ELSE IF c.num = None THEN NotPacked(c.insn, "TypeError")
  ELSE Packed(c.insn, alu_word(c.insn, s, c.num))

\* Instruction.__int__: the record after the call and the word, or the
\* exception.  The operands of | are evaluated left to right, so a signal set
\* without a code raises before cond_to_num runs.
Instruction_int(insn) ==
  IF ~insn.finalized THEN NotPacked(insn, "Not yet finalized")
  ELSE IF insn.insn_type = "alu"
  THEN IF sig_to_num(insn) = None THEN NotPacked(insn, "TypeError")
       ELSE alu_int(sig_to_num(insn), cond_to_num(insn))
  ELSE IF insn.cond_br \notin DOMAIN cond_br_to_num THEN NotPacked(insn, "KeyError")
       ELSE Packed(insn, branch_word(insn))

(***************************************************************************)
(* Program sequence and labels (Assembly, Label).                           *)
(***************************************************************************)
\* A displacement that forgets the pipeline depth of the branch.
DisplacementNoDelay(idx_addr, idx) == (idx_addr - idx) * 8

\* Line 27, inside int_to_uint: the displacement of a branch at index idx to
\* a label bound at index idx_addr.
Displacement(idx_addr, idx) == (idx_addr - idx - 4) * 8

\* One turn of the loop of Assembly.finalize on the record at index idx.
finalize_one(insn, idx, lbls) ==
  [insn EXCEPT !.addr = IF insn.insn_type = "branch" /\ insn.addr_label # NoneStr
                        THEN int_to_uint(Displacement(lbls[insn.addr_label], idx))
                        ELSE @,
               !.finalized = TRUE]

\* The 1-based positions whose turn raises KeyError: a label never bound.
Unbound(s, lbls) ==
  {p \in 1..Len(s) : /\ s[p].insn_type = "branch"
                     /\ s[p].addr_label # NoneStr
                     /\ s[p].addr_label \notin DOMAIN lbls}

\* Assembly.finalize: the loop runs in order and stops at the first KeyError,
\* leaving the records before it finalized.
finalize(s, lbls) ==
  LET bad == Unbound(s, lbls)
      stop == IF bad = {} THEN Len(s) + 1 ELSE CHOOSE p \in bad : \A q \in bad : p <= q
  IN  [p \in 1..Len(s) |-> IF p < stop THEN finalize_one(s[p], p - 1, lbls) ELSE s[p]]

(***************************************************************************)
(* State.  asm is the Assembly (a list of records), labels its label       *)
(* table.  hist keeps, beside each record, what its builders were passed;  *)
(* last is the outcome of the operation that ran last.                     *)
(***************************************************************************)
Form(opr, dst, src1, src2, cond, sig) ==
  [opr |-> opr, dst |-> dst, src1 |-> src1, src2 |-> src2, cond |-> cond, sig |-> sig]

NoPrev == [valid |-> FALSE, ok |-> FALSE, word |-> {}]

\* The outcome of the last operation: which operation, on which position,
\* whether it returned and the exception if not; for a builder call the log of
\* its manage_src calls and what read port B stood for before it (bk0); for a
\* packing the word, the condition pair before it (ca0, cm0) and the outcome
\* of the packing of the same record just before it, if any (prev).
NoLast ==
  [op |-> "init", idx |-> 0, ok |-> TRUE, err |-> "", log |-> <<>>, bk0 |-> "free",
   word |-> {}, ca0 |-> NoneStr, cm0 |-> NoneStr, prev |-> NoPrev]

\* The history of a record: the signal names its builder calls were passed,
\* whether one of them resolved a literal operand, whether one of them raised,
\* and what read port B stands for: nothing ("free"), a register ("reg"), a
\* literal ("lit"), or both ("both").
NoHist == [sig_args |-> {}, lit |-> FALSE, failed |-> FALSE, b_kind |-> "free"]

IsLiteral(src) == src.k \in {"int", "float", "fstr"}

\* What read port B stands for after the manage_src call logged as e.
KindAfter(kind, e) ==
  IF e.err # "" \/ e.ret # 7 THEN kind
  ELSE IF IsLiteral(e.src) THEN IF kind \in {"reg", "both"} THEN "both" ELSE "lit"
  ELSE IF e.src.k = "rf" THEN IF kind \in {"lit", "both"} THEN "both" ELSE "reg"
  ELSE kind

RECURSIVE KindAfterLog(_, _)
KindAfterLog(kind, log) ==
  IF log = <<>> THEN kind ELSE KindAfterLog(KindAfter(kind, Head(log)), Tail(log))

\* What a builder call adds to the history of its record.
Built(h, f, r) ==
  IF r.ok
  THEN [h EXCEPT !.sig_args = @ \cup f.sig.v,
                 !.lit = @ \/ IsLiteral(f.src1) \/ IsLiteral(f.src2),
                 !.b_kind = KindAfterLog(@, r.log)]
  ELSE [h EXCEPT !.failed = TRUE, !.b_kind = KindAfterLog(@, r.log)]

Init ==
  /\ asm = <<>>
  /\ labels = <<>>
  /\ hist = <<>>
  /\ last = NoLast

\* Instruction(asm, opr, dst, ...) with opr an arithmetic-pipe mnemonic: the
\* record is appended first, then built; an exception leaves it in the list.
NewALU(f) ==
  /\ Len(asm) < MaxInsns
  /\ f.opr \in DOMAIN add_ops
  /\ \E r \in {AddALU(NewInsn, f.opr, f.dst, f.src1, f.src2, f.cond, f.sig)} :
         /\ asm' = Append(asm, r.insn)
         /\ hist' = Append(hist, Built(NoHist, f, r))
         /\ last' = [NoLast EXCEPT !.op = "add", !.idx = Len(asm) + 1,
                                   !.ok = r.ok, !.err = r.err, !.log = r.log]
  /\ UNCHANGED labels

\* insn.<mnemonic>(dst, ...) on the record at position p: __getattr__ hands
\* out the multiply-pipe builder for an ALU record, whatever its finalized flag.
AttachMul(p, f) ==
  /\ p \in 1..Len(asm)
  /\ asm[p].insn_type = "alu"
  /\ f.opr \in DOMAIN mul_ops
  /\ \E r \in {MulALU(asm[p], f.opr, f.dst, f.src1, f.src2, f.cond, f.sig)} :
         /\ asm' = [asm EXCEPT ![p] = r.insn]
         /\ hist' = [hist EXCEPT ![p] = Built(@, f, r)]
         /\ last' = [NoLast EXCEPT !.op = "mul", !.idx = p, !.ok = r.ok,
                                   !.err = r.err, !.log = r.log,
                                   !.bk0 = hist[p].b_kind]
  /\ UNCHANGED labels

\* b(src, cond=...)
NewBranch(src, cond) ==
  /\ Len(asm) < MaxInsns
  /\ asm' = Append(asm, Branch(NewInsn, src, cond))
  /\ hist' = Append(hist, NoHist)
  /\ last' = [NoLast EXCEPT !.op = "b", !.idx = Len(asm) + 1]
  /\ UNCHANGED labels

\* A label definition that binds the name again when it is already bound.
DefineLabel_rebind(name) ==
  /\ labels' = [n \in DOMAIN labels \cup {name} |->
                  IF n = name THEN Len(asm) ELSE labels[n]]
  /\ last' = [NoLast EXCEPT !.op = "label"]
  /\ UNCHANGED <<asm, hist>>

\* L.<name>
DefineLabel(name) ==
  /\ IF name \in DOMAIN labels
     THEN /\ labels' = labels
          /\ last' = [NoLast EXCEPT !.op = "label", !.ok = FALSE,
                                    !.err = "Label is duplicated"]
     ELSE /\ labels' = labels @@ (name :> Len(asm))
          /\ last' = [NoLast EXCEPT !.op = "label"]
  /\ UNCHANGED <<asm, hist>>

\* asm.finalize()
Finalize ==
  /\ asm' = finalize(asm, labels)
  /\ last' = [NoLast EXCEPT !.op = "finalize",
                            !.ok = Unbound(asm, labels) = {},
                            !.err = IF Unbound(asm, labels) = {} THEN "" ELSE "KeyError"]
  /\ UNCHANGED <<labels, hist>>

\* int(asm[p - 1])
Pack(p) ==
  /\ p \in 1..Len(asm)
  /\ \E r \in {Instruction_int(asm[p])} :
         /\ asm' = [asm EXCEPT ![p] = r.insn]
         /\ last' = [NoLast EXCEPT
                       !.op = "pack", !.idx = p, !.ok = r.ok, !.err = r.err,
                       !.word = r.word,
                       !.ca0 = asm[p].cond_add, !.cm0 = asm[p].cond_mul,
                       !.prev = IF last.op = "pack" /\ last.idx = p
                                THEN [valid |-> TRUE, ok |-> last.ok, word |-> last.word]
                                ELSE NoPrev]
  /\ UNCHANGED <<labels, hist>>

(***************************************************************************)
(* Spec: program sequences of up to MaxInsns records, built from one       *)
(* arithmetic-pipe instruction and one branch to the label "a", with the   *)
(* label defined, the sequence finalized and records packed in any order.  *)
(***************************************************************************)
LabelNames == {"a"}

SeqAddForms == {Form("nop", "null", NoSrc, NoSrc, NoneStr, NoSig)}

SeqTargets == {ToLabel("a")}

SeqBranchConds == {"always"}

Next ==
  \/ \E f \in SeqAddForms : NewALU(f)
  \/ \E src \in SeqTargets, cond \in SeqBranchConds : NewBranch(src, cond)
  \/ \E name \in LabelNames : DefineLabel(name)
  \/ Finalize
  \/ \E p \in 1..Len(asm) : Pack(p)

Spec == Init /\ [][Next]_vars

(***************************************************************************)
(* SpecBranch: sequences of branches, to the label or through a register,  *)
(* under several branch conditions.                                        *)
(***************************************************************************)
BranchForms ==
  {<<ToLabel("a"), "always">>, <<ToLabel("a"), "allna">>, <<ToRf(63), "a0">>}

NextBranch ==
  \/ \E b \in BranchForms : NewBranch(b[1], b[2])
  \/ \E name \in LabelNames : DefineLabel(name)
  \/ Finalize
  \/ \E p \in 1..Len(asm) : Pack(p)

SpecBranch == Init /\ [][NextBranch]_vars

(***************************************************************************)
(* Record-level specifications: one ALU record is built by an arithmetic-  *)
(* pipe call, multiply-pipe calls are attached to it, it is finalized and  *)
(* packed, in any order and any number of times.  Each specification draws *)
(* the calls from its own alphabet of forms.                               *)
(***************************************************************************)
FirstALU(f) == asm = <<>> /\ NewALU(f)

\* Condition pairs: every condition name, or none, on either pipe.
CondNames == {NoneStr} \cup DOMAIN conds_push \cup DOMAIN conds_insn

CondAddForms == {Form("add", "rf1", Acc(0), Acc(1), c, NoSig) : c \in CondNames}

CondMulForms == {Form("fmul16", "rf2", Acc(2), Acc(3), c, NoSig) : c \in CondNames}

NextCond ==
  \/ \E f \in CondAddForms : FirstALU(f)
  \/ \E f \in CondMulForms : AttachMul(1, f)
  \/ Finalize
  \/ Pack(1)

SpecCond == Init /\ [][NextCond]_vars

\* Signal arguments: every signal name with a code, the one valid pair, an
\* invalid pair, the empty list and an object that is neither string nor list;
\* with and without a literal operand.
SigArgs ==
  {NoSig, SigList({}), SigList({"smimm", "ldtmu"}), SigList({"thrsw", "ldtmu"}),
   SigOther({"ldtmu"})}
    \cup {SigStr(s) : s \in {"thrsw", "ldunif", "ldtmu", "smimm", "rot"}}

SigAddForms ==
  {Form("add", "rf1", s1, Acc(1), "ifb", sig) : s1 \in {Acc(0), IntLit(5)}, sig \in SigArgs}

SigMulForms ==
  {Form("fmul16", "rf2", s1, Acc(3), "ifa", sig) : s1 \in {Acc(2), IntLit(5)}, sig \in SigArgs}

NextSig ==
  \/ \E f \in SigAddForms : FirstALU(f)
  \/ \E f \in SigMulForms : AttachMul(1, f)
  \/ Finalize
  \/ Pack(1)

SpecSig == Init /\ [][NextSig]_vars

\* Source operands: three general-file registers, an accumulator, literals
\* of every kind (in and out of the tables), an unknown name and an index out
\* of range; with and without the small-immediate signal passed by the caller.
PortSrcs == {Rf(1), Rf(2), Rf(3), Acc(3), IntLit(2), IntLit(5), FloatLit(5, -1)}

MoreSrcs ==
  {Rf(0), Rf(63), Rf(64), Acc(6), OtherName,
   IntLit(17), IntLit(-16), IntLit(-1), IntLit(-17), IntLit(float_to_int(<<1, 7>>)),
   FloatLit(1, 0), FloatLit(1, -1), FloatStr(1, -1), FloatStr(1, 7), FloatStr(3, 0),
   FloatStr(15, -149)}

PortSigs == {NoSig, SigStr("smimm")}

PortAddForms ==
  {Form("add", "rf10", s1, s2, NoneStr, sig) : s1 \in PortSrcs, s2 \in PortSrcs, sig \in PortSigs}
    \cup {Form("bnot", "rf10", s1, NoSrc, NoneStr, NoSig) : s1 \in MoreSrcs}
    \cup {Form("add", "rf10", NoSrc, s2, NoneStr, NoSig) : s2 \in {NoSrc, Rf(1)}}

PortMulForms ==
  {Form("mov", "rf11", s1, NoSrc, NoneStr, sig) : s1 \in PortSrcs, sig \in PortSigs}
    \cup {Form("fmul16", "rf11", s1, s2, NoneStr, NoSig) : s1 \in {Rf(1), Rf(3)}, s2 \in {Rf(2), IntLit(5)}}

NextPorts ==
  \/ \E f \in PortAddForms : FirstALU(f)
  \/ \E f \in PortMulForms : AttachMul(1, f)
  \/ Finalize
  \/ Pack(1)

SpecPorts == Init /\ [][NextPorts]_vars

\* Fields: every arithmetic-pipe mnemonic, every destination name, the
\* mnemonics without sources, and multiply-pipe calls that reach the largest
\* opcode, destination and selector values, under conditions of every kind.
FieldAddForms ==
  {Form(o, "rf1", Acc(0), Acc(1), "ifnb", NoSig) : o \in DOMAIN add_ops}
    \cup {Form("add", d, Rf(63), IntLit(-1), NoneStr, SigStr("ldtmu")) : d \in DOMAIN waddrs}
    \cup {Form(o, "r5rep", NoSrc, NoSrc, "pushc", SigStr("rot")) : o \in DOMAIN add_op_mux_a}
    \cup {Form("setrevf", "tmuau", Rf(62), NoSrc, "ifa", NoSig)}

FieldMulForms ==
  {Form(o, "rf63", Acc(5), Acc(4), c, NoSig) :
     o \in {"smul24", "fmul63"}, c \in {NoneStr, "ifnb"}}
    \cup {Form("mov", "tmua", Rf(63), NoSrc, "pushc", NoSig),
          Form("fmov_3", "vpm", Rf(7), NoSrc, "ifna", NoSig),
          Form("nop", "null", NoSrc, NoSrc, NoneStr, NoSig)}

NextFields ==
  \/ \E f \in FieldAddForms : FirstALU(f)
  \/ \E f \in FieldMulForms : AttachMul(1, f)
  \/ Finalize
  \/ Pack(1)

SpecFields == Init /\ [][NextFields]_vars

(***************************************************************************)
(* SpecLabels: records are appended and labels of several names are        *)
(* defined, and defined again, at any point of the sequence.               *)
(***************************************************************************)
MoreLabelNames == {"a", "b", "c"}

NextLabels ==
  \/ \E f \in SeqAddForms : NewALU(f)
  \/ \E name \in MoreLabelNames : DefineLabel(name)

SpecLabels == Init /\ [][NextLabels]_vars

(***************************************************************************)
(* Properties.                                                             *)
(***************************************************************************)
\* The signed value of a 32-bit two's-complement pattern.
Signed32(bits) ==
  IF 31 \in bits THEN SumBits(bits \cap (0..30)) - 2147483647 - 1
  ELSE SumBits(bits \cap (0..30))

\* The finalized branches to a bound label.
ResolvedBranches ==
  {p \in 1..Len(asm) : /\ asm[p].insn_type = "branch"
                       /\ asm[p].finalized
                       /\ asm[p].addr_label \in DOMAIN labels}

\* C1: a finalized branch at index B to a label bound at index L holds the
\* displacement (L - B - 4) * 8 as its 32-bit two's-complement pattern,
\* whether the label lies before or after the branch.
C1_DisplacementLaw ==
  \A p \in ResolvedBranches :
    /\ asm[p].addr \subseteq 0..31
    /\ Signed32(asm[p].addr) = (labels[asm[p].addr_label] - (p - 1) - 4) * 8

\* C1 witness: finalize has resolved a forward reference (the label was bound
\* after the branch was appended) whose displacement is not negative, beside
\* a branch whose displacement is negative.
C1_Witness ==
  /\ last.op = "finalize" /\ last.ok
  /\ \E p \in ResolvedBranches :
       /\ labels[asm[p].addr_label] > p - 1
       /\ Signed32(asm[p].addr) >= 0
  /\ \E p \in ResolvedBranches : Signed32(asm[p].addr) < 0

\* The outcome of the packing of the same record just before the last one.
C2_Repacked == last.op = "pack" /\ last.prev.valid /\ last.prev.ok

\* C2: a finalized record that packed to a word packs again, to the same
\* word.
C2_Repeatable == C2_Repacked => (last.ok /\ last.word = last.prev.word)

\* The manage_src calls of the last builder call, by position in its log, and
\* what read port B stood for before each of them.
LoggedCalls == 1..Len(last.log)

KindBefore(i) == KindAfterLog(last.bk0, SubSeq(last.log, 1, i - 1))

\* The calls that resolved a general-file register with an index in 0..63.
RfCalls == {i \in LoggedCalls : last.log[i].src.k = "rf" /\ last.log[i].src.n \in 0..63}

\* C3, for one call e resolving the index e.src.n with port B standing for
\* kind: the first index goes to port A, an index already on a port returns
\* that port and takes no other, a second distinct index goes to port B when
\* B is free, a third distinct index fails and leaves both ports alone.
RfAllocated(e, kind) ==
  LET n == e.src.n
  IN  /\ e.a0 = None => (e.err = "" /\ e.ret = 6 /\ e.a1 = n /\ e.b1 = e.b0)
      /\ e.a0 = n => (e.err = "" /\ e.ret = 6 /\ e.a1 = n /\ e.b1 = e.b0)
      /\ (e.a0 \notin {None, n} /\ e.b0 = None)
           => (e.err = "" /\ e.ret = 7 /\ e.a1 = e.a0 /\ e.b1 = n)
      /\ (e.a0 \notin {None, n} /\ e.b0 = n /\ kind = "reg")
           => (e.err = "" /\ e.ret = 7 /\ e.a1 = e.a0 /\ e.b1 = n)
      /\ (e.a0 \notin {None, n} /\ e.b0 \notin {None, n})
           => (e.err # "" /\ e.a1 = e.a0 /\ e.b1 = e.b0)

\* C3: every resolution of a general-file index follows the allocation rule
\* of the two read ports.
C3_PortAllocation == \A i \in RfCalls : RfAllocated(last.log[i], KindBefore(i))

\* The calls that resolved a literal.
LiteralCalls == {i \in LoggedCalls : IsLiteral(last.log[i].src)}

\* C4, for one call e resolving a literal with port B standing for kind: a
\* literal that resolves is on port B, returns selector 7 and marks the
\* small-immediate signal; a port B that holds a register makes it fail and
\* is left unchanged, as is a port B that holds a literal, whether the call
\* fails (another code) or succeeds (the same code).
LiteralPlaced(e, kind) ==
  /\ e.err = "" => (e.ret = 7 /\ e.sm1 /\ e.b1 # None /\ e.a1 = e.a0)
  /\ kind = "reg" => (e.err # "" /\ e.b1 = e.b0)
  /\ kind = "lit" => e.b1 = e.b0

\* C4: every resolution of a literal follows the rule of read port B, and
\* port B never stands for both a register and a literal in one record.
C4_LiteralOnPortB ==
  /\ \A i \in LiteralCalls : LiteralPlaced(last.log[i], KindBefore(i))
  /\ \A p \in 1..Len(hist) : hist[p].b_kind # "both"

\* C5, for one call e resolving a literal: an integer is looked up in the
\* integer table, a float (passed as a number or spelled in a string) in the
\* float table, by equality; a literal that is no entry of its table fails,
\* and one that resolves gives port B the code of the entry equal to it.
ExactLookup(e) ==
  IF e.src.k = "int"
  THEN IF e.src.n \in DOMAIN smimms_int
       THEN e.err = "" => e.b1 = smimms_int[e.src.n]
       ELSE e.err # ""
  ELSE IF <<e.src.n, e.src.e>> \in DOMAIN smimms_float
       THEN e.err = "" => e.b1 = smimms_float[<<e.src.n, e.src.e>>]
       ELSE e.err # ""

\* C5: small-immediate lookup is by exact match in the table of the
\* literal's kind.
C5_ExactLookup == \A i \in LiteralCalls : ExactLookup(last.log[i])

\* The last operation asked for the word of the finalized ALU record at
\* position last.idx.
ALUPackRequested ==
  /\ last.op = "pack"
  /\ asm[last.idx].insn_type = "alu"
  /\ asm[last.idx].finalized

\* The last operation packed the finalized ALU record at position last.idx.
ALUPacked == ALUPackRequested /\ last.ok

\* The kind of one side of a condition pair.
SideKind(c) ==
  IF c = NoneStr THEN "absent"
  ELSE IF c \in {"", "pushz", "pushn", "pushc"} THEN "push"
  ELSE IF c \in {"ifa", "ifb", "ifna", "ifnb"} THEN "instruction"
  ELSE "unknown"

\* The push code of a side that is absent or push, the instruction code of a
\* side that is instruction.
PushCode(c) == IF c = NoneStr THEN 0 ELSE conds_push[c]

InsnCode(c) == conds_insn[c]

\* The six-row combination table; None for a pair that no row covers.
PairCode(ca, cm) ==
  LET ka == SideKind(ca)
      km == SideKind(cm)
  IN  IF ka = "absent" /\ km = "absent" THEN 0
      ELSE IF ka = "push" /\ km = "absent" THEN PushCode(ca)
      ELSE IF ka = "absent" /\ km = "push" THEN 16 + PushCode(cm)
      ELSE IF ka = "instruction" /\ km = "instruction"
           THEN 64 + InsnCode(cm) * 16 + InsnCode(ca)
      ELSE IF ka = "instruction" /\ km \in {"absent", "push"}
           THEN 32 + InsnCode(ca) * 4 + PushCode(cm)
      ELSE IF ka \in {"absent", "push"} /\ km = "instruction"
           THEN 48 + InsnCode(cm) * 4 + PushCode(ca)
      ELSE None

\* C6: the word of a finalized ALU record holds, in the 7 bits at offset 46,
\* the code the six-row table gives for the condition pair the record holds
\* when it is packed; a pair no row covers (both sides push) gives no word.
C6_ConditionCode ==
  ALUPackRequested =>
    IF PairCode(last.ca0, last.cm0) = None
    THEN ~last.ok /\ last.word = {}
    ELSE /\ last.ok
         /\ Field(last.word, 46, 7) = PairCode(last.ca0, last.cm0)
         /\ PairCode(last.ca0, last.cm0) \in 0..127

\* C6 witness: a record with instruction conditions on both pipes was packed
\* (ifnb on the arithmetic pipe, ifna on the multiply pipe: 64 + 2 * 16 + 3).
C6_Witness ==
  /\ ALUPacked
  /\ last.ca0 = "ifnb" /\ last.cm0 = "ifna"
  /\ Field(last.word, 46, 7) = 99

\* The code of a signal set; None for a set without a code.
SignalCode(S) ==
  CASE S = {} -> 0
    [] S = {"thrsw"} -> 1
    [] S = {"ldunif"} -> 2
    [] S = {"ldtmu"} -> 4
    [] S = {"smimm"} -> 15
    [] S = {"rot"} -> 23
    [] S = {"smimm", "ldtmu"} -> 31
    [] OTHER -> None

\* The signal set the builder calls of the record at position p stand for:
\* the names they were passed and the small-immediate signal of a literal.
SignalsPassed(p) ==
  hist[p].sig_args \cup (IF hist[p].lit THEN {"smimm"} ELSE {})

\* C7: the signal set of an ALU record none of whose builder calls raised is
\* the union of the names passed to them and the small-immediate signal of a
\* literal operand; packing a finalized record whose set is one of the seven
\* valid sets (and whose condition pair has a code) puts the code of the set
\* in the 5 bits at offset 53, and packing one with any other set fails
\* without a word.
C7_SignalSet ==
  /\ \A p \in 1..Len(asm) :
       (asm[p].insn_type = "alu" /\ ~hist[p].failed) => asm[p].sig = SignalsPassed(p)
  /\ ALUPackRequested =>
       IF SignalCode(asm[last.idx].sig) = None
       THEN ~last.ok /\ last.word = {}
       ELSE PairCode(last.ca0, last.cm0) # None =>
              (last.ok /\ Field(last.word, 53, 5) = SignalCode(asm[last.idx].sig))

\* C7 witness: a record whose small-immediate signal comes from a literal
\* operand and whose load-TMU-result signal was passed by name was packed
\* with the code 31.
C7_Witness ==
  /\ ALUPacked
  /\ ~hist[last.idx].failed
  /\ hist[last.idx].sig_args = {"ldtmu"} /\ hist[last.idx].lit
  /\ Field(last.word, 53, 5) = 31

\* Every value of the encoding tables fits the width of its field.
TablesFit ==
  /\ \A o \in DOMAIN add_ops : add_ops[o] \in 0..255
  /\ \A o \in DOMAIN mul_ops : mul_ops[o] \in 0..63
  /\ \A d \in DOMAIN waddrs : waddrs[d][1] \in 0..1 /\ waddrs[d][2] \in 0..63
  /\ \A o \in DOMAIN add_op_mux_a : add_op_mux_a[o] \in 0..7
  /\ \A o \in DOMAIN add_op_mux_b : add_op_mux_b[o] \in 0..7
  /\ \A o \in DOMAIN mul_op_mux_a : mul_op_mux_a[o] \in 0..7
  /\ \A o \in DOMAIN mul_op_mux_b : mul_op_mux_b[o] \in 0..7

\* The layout of an ALU word: every field read back at its offset and width
\* is the value of the record, and no value outgrows its width.
ALULayout(word, insn, sig_num, cond_num) ==
  /\ Field(word, 58, 6) = insn.op_mul /\ insn.op_mul \in 0..63
  /\ Field(word, 53, 5) = sig_num /\ sig_num \in 0..31
  /\ Field(word, 46, 7) = cond_num /\ cond_num \in 0..127
  /\ Field(word, 45, 1) = insn.mm /\ insn.mm \in 0..1
  /\ Field(word, 44, 1) = insn.ma /\ insn.ma \in 0..1
  /\ Field(word, 38, 6) = insn.waddr_m /\ insn.waddr_m \in 0..63
  /\ Field(word, 32, 6) = insn.waddr_a /\ insn.waddr_a \in 0..63
  /\ Field(word, 24, 8) = insn.op_add /\ insn.op_add \in 0..255
  /\ Field(word, 21, 3) = insn.mul_b /\ insn.mul_b \in 0..7
  /\ Field(word, 18, 3) = insn.mul_a /\ insn.mul_a \in 0..7
  /\ Field(word, 15, 3) = insn.add_b /\ insn.add_b \in 0..7
  /\ Field(word, 12, 3) = insn.add_a /\ insn.add_a \in 0..7
  /\ Field(word, 6, 6) = OrZero(insn.raddr_a) /\ OrZero(insn.raddr_a) \in 0..63
  /\ Field(word, 0, 6) = OrZero(insn.raddr_b) /\ OrZero(insn.raddr_b) \in 0..63
  /\ word \subseteq 0..63

\* C8: the word of a finalized ALU record, read back at the offsets and
\* widths of the layout, gives the record's opcodes, signal code, condition
\* code, destinations, selectors and read-port addresses (0 for a port not
\* used); no value outgrows its width and the word fits in 64 bits.
C8_ALULayout ==
  /\ TablesFit
  /\ ALUPacked =>
       ALULayout(last.word, asm[last.idx], SignalCode(asm[last.idx].sig),
                 PairCode(last.ca0, last.cm0))

\* C8 witness: a record with the largest multiply-pipe opcode, the largest
\* destination address on both pipes, the largest read-port-a address, a
\* small immediate on read port B and the signal code 31 was packed.
C8_Witness ==
  /\ ALUPacked
  /\ asm[last.idx].op_mul = 63 /\ asm[last.idx].waddr_m = 63
  /\ asm[last.idx].waddr_a = 63 /\ asm[last.idx].raddr_a = 63
  /\ asm[last.idx].raddr_b = 31
  /\ Field(last.word, 53, 5) = 31

\* The last operation packed the finalized branch at position last.idx.
BranchPacked ==
  /\ last.op = "pack" /\ last.ok
  /\ asm[last.idx].insn_type = "branch"

\* The layout of a branch word, with the low displacement field taken from
\* the low n bits of the displacement.
BranchLayout(word, insn, n) ==
  /\ Field(word, 56, 2) = 2
  /\ Field(word, 35, 21) = SumBits(Shr(LowBits(insn.addr, n), 3))
  /\ Field(word, 32, 3) = cond_br_to_num[insn.cond_br]
  /\ Field(word, 24, 8) = SumBits(Shr(insn.addr, 24))
  /\ Field(word, 12, 2) = insn.bdi
  /\ Field(word, 6, 6) = OrZero(insn.raddr_a)
  /\ word \subseteq (6..13) \cup (24..57)
  /\ cond_br_to_num[insn.cond_br] < 8 /\ insn.bdi < 4 /\ OrZero(insn.raddr_a) < 64
  /\ insn.addr \subseteq 0..31

\* C9, as stated: the word of a finalized branch holds the tag, the low 23
\* bits of the displacement shifted right by 3, the condition code, the high
\* displacement bits, the branch-delay indicator and read port A at their
\* offsets.
C9_Low23 == BranchPacked => BranchLayout(last.word, asm[last.idx], 23)

\* C9, amended: the 21-bit field at offset 35 holds the low 24 bits of the
\* displacement shifted right by 3 (displacement bits 3..23); every other
\* field as stated, and no field overlaps another.
C9_BranchLayout == BranchPacked => BranchLayout(last.word, asm[last.idx], 24)

\* C9 witness: a branch to a label with a negative displacement was packed
\* (its bit 23 is set).
C9_Witness ==
  /\ BranchPacked
  /\ asm[last.idx].addr_label # NoneStr
  /\ 23 \in asm[last.idx].addr

\* C10: no step changes any field of a record that is finalized.
C10_Immutable ==
  [][\A p \in 1..Len(asm) : asm[p].finalized => asm'[p] = asm[p]]_vars

\* C11: a finalize that fails on a label never bound leaves no record
\* finalized that was not finalized before it ran.
C11_NoPartialOutput ==
  [][(last'.op = "finalize" /\ ~last'.ok)
       => \A p \in 1..Len(asm) : asm'[p].finalized => asm[p].finalized]_vars

\* C12: a label definition that succeeds binds one name that was not bound
\* to the current length of the sequence; one that fails is the
\* duplicate-label error and leaves the label table unchanged; and no step
\* unbinds a name or changes the index a name is bound to.
C12_LabelBinding ==
  [][/\ \A n \in DOMAIN labels : n \in DOMAIN labels' /\ labels'[n] = labels[n]
     /\ (last'.op = "label" /\ last'.ok)
          => \E n \in DOMAIN labels' \ DOMAIN labels :
               /\ DOMAIN labels' = DOMAIN labels \cup {n}
               /\ labels'[n] = Len(asm)
     /\ (last'.op = "label" /\ ~last'.ok)
          => (labels' = labels /\ last'.err = "Label is duplicated")
     /\ last'.op # "label" => labels' = labels]_vars

\* C12 witness: a name bound before records were appended was defined again,
\* which failed, beside another name bound at a later index.
C12_Witness ==
  /\ last.op = "label" /\ ~last.ok
  /\ \E n \in DOMAIN labels, m \in DOMAIN labels :
       labels[n] < labels[m] /\ labels[m] < Len(asm)
====
